---- MODULE Spec2Model ----
(***************************************************************************)
(* The TuxedoVault contract (src/contracts/vault/src/lib.rs): a pooled     *)
(* vault whose share accounting is kept in contract storage and whose      *)
(* assets are balances of an external token contract.                      *)
(*                                                                         *)
(* Every public entry point is one action.  An entry point is modelled by  *)
(* an operator that returns its outcome (error tag, returned value and the *)
(* storage and balances it leaves); the action commits that outcome.  An   *)
(* invocation that returns Err or traps (failed require_auth, unwrap of a  *)
(* missing key, a token transfer the token contract rejects) is discarded  *)
(* by the host, so its outcome carries the state it started from.          *)
(***************************************************************************)
EXTENDS Integers, FiniteSets, TLC

\* ---------------------------------------------------------------- constants
INITIAL_SHARE_VALUE == 10000000
PLATFORM_FEE_BPS == 200
BPS_DENOMINATOR == 10000

\* ------------------------------------------------------------------- bounds
\* Token units each holder starts with.  The whole supply stays below 214,
\* so that balance * INITIAL_SHARE_VALUE fits the 32-bit integers of TLC.
UserFunds == 61
VenueFunds == 60
OtherFunds == 40
\* Deposits that would take total_shares above this are not explored.
MaxShares == 150
\* Invocations that succeed after initialize, per behaviour.
MaxOps == 3

Users == {"u1", "u2"}
Vault == "vault"
Venue == "pool"
Holders == Users \cup {Vault, Venue, "platform"}
Assets == {"usdc", "other"}

DepositAmounts == {0, 1, 40, 60}
InflowAmounts == {3, 50}
StrategyAmounts == {0, 40}

NoConfig == [admin |-> "none", agent |-> "none", platform |-> "none", asset |-> "none"]
InitArgs ==
    { [admin |-> "admin", agent |-> "agent", platform |-> "platform", asset |-> "usdc"],
      [admin |-> "agent", agent |-> "admin", platform |-> "u2", asset |-> "usdc"] }

VARIABLES
    config,            \* ADMIN, AGENT, PLATFORM, SHR_TKN of instance storage, or NoConfig
    total_shares,      \* T_SHARES of instance storage (absent reads as 0)
    initial_deposits,  \* INIT_DEP of instance storage (absent reads as 0): the deposit basis
    shares,            \* persistent ("shares", user) entries: a function on the users that have one
    bal,               \* balances kept by the token contracts: bal[asset][holder]
    last,              \* the last invocation: its arguments, its result and the state it ran in
    nops,              \* invocations that succeeded since initialize
    farm               \* the TuxFarming contract: its storage, the balances of its tokens, its last invocation

vars == <<config, total_shares, initial_deposits, shares, bal, last, nops, farm>>

\* ------------------------------------------------------------------ helpers
\* Rust's i128 `/`: the quotient truncated toward zero.
TruncDiv(a, b) ==
    IF a >= 0 /\ b > 0 THEN a \div b
    ELSE IF a < 0 /\ b > 0 THEN -((-a) \div b)
    ELSE IF a >= 0 /\ b < 0 THEN -(a \div (-b))
    ELSE (-a) \div (-b)

\* storage().persistent().get(&key).unwrap_or(0)
UserShares(led, user) == IF user \in DOMAIN led THEN led[user] ELSE 0

\* storage().persistent().set(&key, &v)
SetShares(led, user, v) == [u \in (DOMAIN led) \cup {user} |-> IF u = user THEN v ELSE led[u]]

\* storage().persistent().remove(&key)
RemoveShares(led, user) == [u \in (DOMAIN led) \ {user} |-> led[u]]

\* The storage and balances an invocation reads and writes.
Store == [ts |-> total_shares, dep |-> initial_deposits, led |-> shares, bal |-> bal]

\* TokenInterface::transfer(from, to, amount): the token contract moves the
\* amount when `from` authorized the movement and holds it; `accepted` is the
\* token contract's verdict on the authorization.  Otherwise it traps.
CanTransfer(b, asset, from, amount, accepted) ==
    accepted /\ amount >= 0 /\ b[asset][from] >= amount

Transfer(b, asset, from, to, amount) ==
    [b EXCEPT ![asset] = [h \in Holders |->
        (b[asset][h] - (IF h = from THEN amount ELSE 0)) + (IF h = to THEN amount ELSE 0)]]

\* token_client.balance(&env.current_contract_address()) of the vault's asset
get_total_vault_assets == bal[config.asset][Vault]

\* Mutation: the share value kept at par instead of recomputed from the live balance.
calculate_share_value_par == INITIAL_SHARE_VALUE

\* Mutation: the share value computed from the deposit basis instead of the live balance.
calculate_share_value_from_basis ==
    IF total_shares = 0 THEN INITIAL_SHARE_VALUE
    ELSE TruncDiv(initial_deposits * INITIAL_SHARE_VALUE, total_shares)

\* Mutation: an empty vault reports a share value of 0 instead of par.
calculate_share_value_zero_when_empty ==
    IF total_shares = 0 THEN 0
    ELSE TruncDiv(get_total_vault_assets * INITIAL_SHARE_VALUE, total_shares)

calculate_share_value ==
    IF total_shares = 0 THEN INITIAL_SHARE_VALUE
    ELSE TruncDiv(get_total_vault_assets * INITIAL_SHARE_VALUE, total_shares)

\* An invocation that fails: the host keeps none of its writes.
Failed(e) == [err |-> e, ret |-> 0, st |-> Store]
Succeeded(r, s) == [err |-> "Ok", ret |-> r, st |-> s]

\* Mutation: total_shares grows by the amount deposited, not by the shares minted.
deposit_total_by_amount(user, amount, auth, accepted) ==
    IF ~auth THEN Failed("AuthError")
    ELSE IF amount <= 0 THEN Failed("InvalidAmount")
    ELSE IF config = NoConfig THEN Failed("Panic")
    ELSE
      LET share_value == calculate_share_value
          shares_to_mint ==
              IF share_value = 0 THEN amount
              ELSE TruncDiv(amount * INITIAL_SHARE_VALUE, share_value)
      IN IF shares_to_mint <= 0 THEN Failed("InvalidAmount")
         ELSE IF ~CanTransfer(bal, config.asset, user, amount, accepted)
              THEN Failed("TransferError")
         ELSE Succeeded(shares_to_mint,
                [ts  |-> total_shares + amount,
                 dep |-> initial_deposits + amount,
                 led |-> SetShares(shares, user, UserShares(shares, user) + shares_to_mint),
                 bal |-> Transfer(bal, config.asset, user, Vault, amount)])

\* Mutation: the result of the pull is not looked at; shares are minted whether
\* or not the token contract moved the amount.
deposit_ignoring_pull(user, amount, auth, accepted) ==
    IF ~auth THEN Failed("AuthError")
    ELSE IF amount <= 0 THEN Failed("InvalidAmount")
    ELSE IF config = NoConfig THEN Failed("Panic")
    ELSE
      LET share_value == calculate_share_value
          shares_to_mint ==
              IF share_value = 0 THEN amount
              ELSE TruncDiv(amount * INITIAL_SHARE_VALUE, share_value)
          moved == CanTransfer(bal, config.asset, user, amount, accepted)
      IN IF shares_to_mint <= 0 THEN Failed("InvalidAmount")
         ELSE Succeeded(shares_to_mint,
                [ts  |-> total_shares + shares_to_mint,
                 dep |-> initial_deposits + amount,
                 led |-> SetShares(shares, user, UserShares(shares, user) + shares_to_mint),
                 bal |-> IF moved THEN Transfer(bal, config.asset, user, Vault, amount)
                         ELSE bal])

\* Mutation: before initialize the deposit is booked at par and the token is
\* never called, instead of trapping on the missing SHR_TKN.
deposit_before_initialize(user, amount, auth, accepted) ==
    IF ~auth THEN Failed("AuthError")
    ELSE IF amount <= 0 THEN Failed("InvalidAmount")
    ELSE IF config = NoConfig
         THEN Succeeded(amount,
                [ts  |-> total_shares + amount,
                 dep |-> initial_deposits + amount,
                 led |-> SetShares(shares, user, UserShares(shares, user) + amount),
                 bal |-> bal])
    ELSE
      LET share_value == calculate_share_value
          shares_to_mint ==
              IF share_value = 0 THEN amount
              ELSE TruncDiv(amount * INITIAL_SHARE_VALUE, share_value)
      IN IF shares_to_mint <= 0 THEN Failed("InvalidAmount")
         ELSE IF ~CanTransfer(bal, config.asset, user, amount, accepted)
              THEN Failed("TransferError")
         ELSE Succeeded(shares_to_mint,
                [ts  |-> total_shares + shares_to_mint,
                 dep |-> initial_deposits + amount,
                 led |-> SetShares(shares, user, UserShares(shares, user) + shares_to_mint),
                 bal |-> Transfer(bal, config.asset, user, Vault, amount)])

\* Mutation: the deposit basis grows by the shares minted, not by the amount.
deposit_basis_by_shares(user, amount, auth, accepted) ==
    IF ~auth THEN Failed("AuthError")
    ELSE IF amount <= 0 THEN Failed("InvalidAmount")
    ELSE IF config = NoConfig THEN Failed("Panic")
    ELSE
      LET share_value == calculate_share_value
          shares_to_mint ==
              IF share_value = 0 THEN amount
              ELSE TruncDiv(amount * INITIAL_SHARE_VALUE, share_value)
      IN IF shares_to_mint <= 0 THEN Failed("InvalidAmount")
         ELSE IF ~CanTransfer(bal, config.asset, user, amount, accepted)
              THEN Failed("TransferError")
         ELSE Succeeded(shares_to_mint,
                [ts  |-> total_shares + shares_to_mint,
                 dep |-> initial_deposits + shares_to_mint,
                 led |-> SetShares(shares, user, UserShares(shares, user) + shares_to_mint),
                 bal |-> Transfer(bal, config.asset, user, Vault, amount)])

\* Mutation: no check of shares_to_mint, a dust deposit is taken for 0 shares.
deposit_accepts_dust(user, amount, auth, accepted) ==
    IF ~auth THEN Failed("AuthError")
    ELSE IF amount <= 0 THEN Failed("InvalidAmount")
    ELSE IF config = NoConfig THEN Failed("Panic")
    ELSE
      LET share_value == calculate_share_value
          shares_to_mint ==
              IF share_value = 0 THEN amount
              ELSE TruncDiv(amount * INITIAL_SHARE_VALUE, share_value)
      IN IF ~CanTransfer(bal, config.asset, user, amount, accepted)
         THEN Failed("TransferError")
         ELSE Succeeded(shares_to_mint,
                [ts  |-> total_shares + shares_to_mint,
                 dep |-> initial_deposits + amount,
                 led |-> SetShares(shares, user, UserShares(shares, user) + shares_to_mint),
                 bal |-> Transfer(bal, config.asset, user, Vault, amount)])

\* Mutation: the new total is computed but TOTAL_SHARES is never written.
deposit_without_total(user, amount, auth, accepted) ==
    IF ~auth THEN Failed("AuthError")
    ELSE IF amount <= 0 THEN Failed("InvalidAmount")
    ELSE IF config = NoConfig THEN Failed("Panic")
    ELSE
      LET share_value == calculate_share_value
          shares_to_mint ==
              IF share_value = 0 THEN amount
              ELSE TruncDiv(amount * INITIAL_SHARE_VALUE, share_value)
      IN IF shares_to_mint <= 0 THEN Failed("InvalidAmount")
         ELSE IF ~CanTransfer(bal, config.asset, user, amount, accepted)
              THEN Failed("TransferError")
         ELSE Succeeded(shares_to_mint,
                [ts  |-> total_shares,
                 dep |-> initial_deposits + amount,
                 led |-> SetShares(shares, user, UserShares(shares, user) + shares_to_mint),
                 bal |-> Transfer(bal, config.asset, user, Vault, amount)])

\* Mutation: the shares minted are rounded up instead of truncated.
deposit_rounds_up(user, amount, auth, accepted) ==
    IF ~auth THEN Failed("AuthError")
    ELSE IF amount <= 0 THEN Failed("InvalidAmount")
    ELSE IF config = NoConfig THEN Failed("Panic")
    ELSE
      LET share_value == calculate_share_value
          shares_to_mint ==
              IF share_value = 0 THEN amount
              ELSE TruncDiv(amount * INITIAL_SHARE_VALUE + (share_value - 1), share_value)
      IN IF shares_to_mint <= 0 THEN Failed("InvalidAmount")
         ELSE IF ~CanTransfer(bal, config.asset, user, amount, accepted)
              THEN Failed("TransferError")
         ELSE Succeeded(shares_to_mint,
                [ts  |-> total_shares + shares_to_mint,
                 dep |-> initial_deposits + amount,
                 led |-> SetShares(shares, user, UserShares(shares, user) + shares_to_mint),
                 bal |-> Transfer(bal, config.asset, user, Vault, amount)])

\* ----------------------------------------------------------------- deposit
deposit(user, amount, auth, accepted) ==
    IF ~auth THEN Failed("AuthError")
    ELSE IF amount <= 0 THEN Failed("InvalidAmount")
    ELSE IF config = NoConfig THEN Failed("Panic")
    ELSE
      LET share_value == calculate_share_value
          shares_to_mint ==
              IF share_value = 0 THEN amount
              ELSE TruncDiv(amount * INITIAL_SHARE_VALUE, share_value)
      IN IF shares_to_mint <= 0 THEN Failed("InvalidAmount")
         ELSE IF ~CanTransfer(bal, config.asset, user, amount, accepted)
              THEN Failed("TransferError")
         ELSE Succeeded(shares_to_mint,
                [ts  |-> total_shares + shares_to_mint,
                 dep |-> initial_deposits + amount,
                 led |-> SetShares(shares, user, UserShares(shares, user) + shares_to_mint),
                 bal |-> Transfer(bal, config.asset, user, Vault, amount)])

\* Mutation: the basis reduction divides by total_shares after the decrement.
withdraw_divides_by_remaining(user, amount, auth, accepted) ==
    IF ~auth THEN Failed("AuthError")
    ELSE IF amount <= 0 THEN Failed("InvalidAmount")
    ELSE
      LET user_shares == UserShares(shares, user)
      IN IF user_shares < amount THEN Failed("InsufficientShares")
         ELSE IF config = NoConfig THEN Failed("Panic")
         ELSE
           LET share_value == calculate_share_value
               assets_to_return == TruncDiv(amount * share_value, INITIAL_SHARE_VALUE)
               total_assets == get_total_vault_assets
               new_user_shares == user_shares - amount
               remaining == total_shares - amount
               deposit_reduction ==
                   IF remaining > 0
                   THEN TruncDiv(initial_deposits * amount, remaining)
                   ELSE initial_deposits
           IN IF assets_to_return <= 0 THEN Failed("InvalidAmount")
              ELSE IF total_assets < assets_to_return THEN Failed("InsufficientBalance")
              ELSE IF ~CanTransfer(bal, config.asset, Vault, assets_to_return, accepted)
                   THEN Failed("TransferError")
              ELSE Succeeded(assets_to_return,
                     [ts  |-> total_shares - amount,
                      dep |-> initial_deposits - deposit_reduction,
                      led |-> IF new_user_shares = 0 THEN RemoveShares(shares, user)
                              ELSE SetShares(shares, user, new_user_shares),
                      bal |-> Transfer(bal, config.asset, Vault, user, assets_to_return)])

\* Mutation: the request is compared with total_shares, not with the caller's own balance.
withdraw_checks_total(user, amount, auth, accepted) ==
    IF ~auth THEN Failed("AuthError")
    ELSE IF amount <= 0 THEN Failed("InvalidAmount")
    ELSE
      LET user_shares == UserShares(shares, user)
      IN IF total_shares < amount THEN Failed("InsufficientShares")
         ELSE IF config = NoConfig THEN Failed("Panic")
         ELSE
           LET share_value == calculate_share_value
               assets_to_return == TruncDiv(amount * share_value, INITIAL_SHARE_VALUE)
               total_assets == get_total_vault_assets
               new_user_shares == user_shares - amount
               deposit_reduction ==
                   IF total_shares > 0
                   THEN TruncDiv(initial_deposits * amount, total_shares)
                   ELSE initial_deposits
           IN IF assets_to_return <= 0 THEN Failed("InvalidAmount")
              ELSE IF total_assets < assets_to_return THEN Failed("InsufficientBalance")
              ELSE IF ~CanTransfer(bal, config.asset, Vault, assets_to_return, accepted)
                   THEN Failed("TransferError")
              ELSE Succeeded(assets_to_return,
                     [ts  |-> total_shares - amount,
                      dep |-> initial_deposits - deposit_reduction,
                      led |-> IF new_user_shares = 0 THEN RemoveShares(shares, user)
                              ELSE SetShares(shares, user, new_user_shares),
                      bal |-> Transfer(bal, config.asset, Vault, user, assets_to_return)])

\* Mutation: the entry is stored as zero instead of being removed.
withdraw_keeps_zero_entry(user, amount, auth, accepted) ==
    IF ~auth THEN Failed("AuthError")
    ELSE IF amount <= 0 THEN Failed("InvalidAmount")
    ELSE
      LET user_shares == UserShares(shares, user)
      IN IF user_shares < amount THEN Failed("InsufficientShares")
         ELSE IF config = NoConfig THEN Failed("Panic")
         ELSE
           LET share_value == calculate_share_value
               assets_to_return == TruncDiv(amount * share_value, INITIAL_SHARE_VALUE)
               total_assets == get_total_vault_assets
               new_user_shares == user_shares - amount
               deposit_reduction ==
                   IF total_shares > 0
                   THEN TruncDiv(initial_deposits * amount, total_shares)
                   ELSE initial_deposits
           IN IF assets_to_return <= 0 THEN Failed("InvalidAmount")
              ELSE IF total_assets < assets_to_return THEN Failed("InsufficientBalance")
              ELSE IF ~CanTransfer(bal, config.asset, Vault, assets_to_return, accepted)
                   THEN Failed("TransferError")
              ELSE Succeeded(assets_to_return,
                     [ts  |-> total_shares - amount,
                      dep |-> initial_deposits - deposit_reduction,
                      led |-> SetShares(shares, user, new_user_shares),
                      bal |-> Transfer(bal, config.asset, Vault, user, assets_to_return)])

\* Mutation: the shares are valued on the deposit basis, not on the live balance.
withdraw_values_on_basis(user, amount, auth, accepted) ==
    IF ~auth THEN Failed("AuthError")
    ELSE IF amount <= 0 THEN Failed("InvalidAmount")
    ELSE
      LET user_shares == UserShares(shares, user)
      IN IF user_shares < amount THEN Failed("InsufficientShares")
         ELSE IF config = NoConfig THEN Failed("Panic")
         ELSE
           LET share_value == TruncDiv(initial_deposits * INITIAL_SHARE_VALUE, total_shares)
               assets_to_return == TruncDiv(amount * share_value, INITIAL_SHARE_VALUE)
               total_assets == get_total_vault_assets
               new_user_shares == user_shares - amount
               deposit_reduction ==
                   IF total_shares > 0
                   THEN TruncDiv(initial_deposits * amount, total_shares)
                   ELSE initial_deposits
           IN IF assets_to_return <= 0 THEN Failed("InvalidAmount")
              ELSE IF total_assets < assets_to_return THEN Failed("InsufficientBalance")
              ELSE IF ~CanTransfer(bal, config.asset, Vault, assets_to_return, accepted)
                   THEN Failed("TransferError")
              ELSE Succeeded(assets_to_return,
                     [ts  |-> total_shares - amount,
                      dep |-> initial_deposits - deposit_reduction,
                      led |-> IF new_user_shares = 0 THEN RemoveShares(shares, user)
                              ELSE SetShares(shares, user, new_user_shares),
                      bal |-> Transfer(bal, config.asset, Vault, user, assets_to_return)])

\* Mutation: INITIAL_DEPOSITS is not reduced by the withdrawal.
withdraw_keeps_basis(user, amount, auth, accepted) ==
    IF ~auth THEN Failed("AuthError")
    ELSE IF amount <= 0 THEN Failed("InvalidAmount")
    ELSE
      LET user_shares == UserShares(shares, user)
      IN IF user_shares < amount THEN Failed("InsufficientShares")
         ELSE IF config = NoConfig THEN Failed("Panic")
         ELSE
           LET share_value == calculate_share_value
               assets_to_return == TruncDiv(amount * share_value, INITIAL_SHARE_VALUE)
               total_assets == get_total_vault_assets
               new_user_shares == user_shares - amount
               deposit_reduction ==
                   IF total_shares > 0
                   THEN TruncDiv(initial_deposits * amount, total_shares)
                   ELSE initial_deposits
           IN IF assets_to_return <= 0 THEN Failed("InvalidAmount")
              ELSE IF total_assets < assets_to_return THEN Failed("InsufficientBalance")
              ELSE IF ~CanTransfer(bal, config.asset, Vault, assets_to_return, accepted)
                   THEN Failed("TransferError")
              ELSE Succeeded(assets_to_return,
                     [ts  |-> total_shares - amount,
                      dep |-> initial_deposits,
                      led |-> IF new_user_shares = 0 THEN RemoveShares(shares, user)
                              ELSE SetShares(shares, user, new_user_shares),
                      bal |-> Transfer(bal, config.asset, Vault, user, assets_to_return)])

\* ---------------------------------------------------------------- withdraw
withdraw(user, amount, auth, accepted) ==
    IF ~auth THEN Failed("AuthError")
    ELSE IF amount <= 0 THEN Failed("InvalidAmount")
    ELSE
      LET user_shares == UserShares(shares, user)
      IN IF user_shares < amount THEN Failed("InsufficientShares")
         ELSE IF config = NoConfig THEN Failed("Panic")
         ELSE
           LET share_value == calculate_share_value
               assets_to_return == TruncDiv(amount * share_value, INITIAL_SHARE_VALUE)
               total_assets == get_total_vault_assets
               new_user_shares == user_shares - amount
               deposit_reduction ==
                   IF total_shares > 0
                   THEN TruncDiv(initial_deposits * amount, total_shares)
                   ELSE initial_deposits
           IN IF assets_to_return <= 0 THEN Failed("InvalidAmount")
              ELSE IF total_assets < assets_to_return THEN Failed("InsufficientBalance")
              ELSE IF ~CanTransfer(bal, config.asset, Vault, assets_to_return, accepted)
                   THEN Failed("TransferError")
              ELSE Succeeded(assets_to_return,
                     [ts  |-> total_shares - amount,
                      dep |-> initial_deposits - deposit_reduction,
                      led |-> IF new_user_shares = 0 THEN RemoveShares(shares, user)
                              ELSE SetShares(shares, user, new_user_shares),
                      bal |-> Transfer(bal, config.asset, Vault, user, assets_to_return)])

\* Mutation: the agent's authorization is not required.
agent_execute_without_auth(strategy, auth, accepted) ==
    IF config = NoConfig THEN Failed("Panic")
    ELSE IF strategy.amount <= 0 THEN Failed("InvalidAmount")
    ELSE IF strategy.action = "supply"
         THEN IF ~CanTransfer(bal, strategy.asset, Vault, strategy.amount, accepted)
              THEN Failed("TransferError")
              ELSE Succeeded(0, [Store EXCEPT
                     !.bal = Transfer(bal, strategy.asset, Vault, strategy.pool, strategy.amount)])
    ELSE IF strategy.action = "withdraw"
         THEN IF ~CanTransfer(bal, strategy.asset, strategy.pool, strategy.amount, accepted)
              THEN Failed("TransferError")
              ELSE Succeeded(0, [Store EXCEPT
                     !.bal = Transfer(bal, strategy.asset, strategy.pool, Vault, strategy.amount)])
    ELSE Failed("NotAuthorized")

\* Mutation: a supply is booked as an expense against the deposit basis.
agent_execute_books_supply(strategy, auth, accepted) ==
    IF config = NoConfig THEN Failed("Panic")
    ELSE IF ~auth THEN Failed("AuthError")
    ELSE IF strategy.amount <= 0 THEN Failed("InvalidAmount")
    ELSE IF strategy.action = "supply"
         THEN IF ~CanTransfer(bal, strategy.asset, Vault, strategy.amount, accepted)
              THEN Failed("TransferError")
              ELSE Succeeded(0, [Store EXCEPT
                     !.dep = initial_deposits - strategy.amount,
                     !.bal = Transfer(bal, strategy.asset, Vault, strategy.pool, strategy.amount)])
    ELSE IF strategy.action = "withdraw"
         THEN IF ~CanTransfer(bal, strategy.asset, strategy.pool, strategy.amount, accepted)
              THEN Failed("TransferError")
              ELSE Succeeded(0, [Store EXCEPT
                     !.bal = Transfer(bal, strategy.asset, strategy.pool, Vault, strategy.amount)])
    ELSE Failed("NotAuthorized")

\* ----------------------------------------------------------- agent_execute
\* strategy = [action, pool, asset, amount]; auth: the configured agent
\* authorized the call.
agent_execute(strategy, auth, accepted) ==
    IF config = NoConfig THEN Failed("Panic")
    ELSE IF ~auth THEN Failed("AuthError")
    ELSE IF strategy.amount <= 0 THEN Failed("InvalidAmount")
    ELSE IF strategy.action = "supply"
         THEN IF ~CanTransfer(bal, strategy.asset, Vault, strategy.amount, accepted)
              THEN Failed("TransferError")
              ELSE Succeeded(0, [Store EXCEPT
                     !.bal = Transfer(bal, strategy.asset, Vault, strategy.pool, strategy.amount)])
    ELSE IF strategy.action = "withdraw"
         THEN IF ~CanTransfer(bal, strategy.asset, strategy.pool, strategy.amount, accepted)
              THEN Failed("TransferError")
              ELSE Succeeded(0, [Store EXCEPT
                     !.bal = Transfer(bal, strategy.asset, strategy.pool, Vault, strategy.amount)])
    ELSE Failed("NotAuthorized")

\* Mutation: the fee is not taken out of the new basis.
distribute_yield_basis_with_fee(accepted) ==
    IF config = NoConfig THEN Failed("Panic")
    ELSE
      LET total_assets == get_total_vault_assets
          yield_earned == total_assets - initial_deposits
          platform_fee == TruncDiv(yield_earned * PLATFORM_FEE_BPS, BPS_DENOMINATOR)
      IN IF yield_earned <= 0 THEN Failed("NoYieldToDistribute")
         ELSE IF platform_fee <= 0 THEN Failed("NoYieldToDistribute")
         ELSE IF ~CanTransfer(bal, config.asset, Vault, platform_fee, accepted)
              THEN Failed("TransferError")
         ELSE Succeeded(platform_fee, [Store EXCEPT
                !.dep = initial_deposits + yield_earned,
                !.bal = Transfer(bal, config.asset, Vault, config.platform, platform_fee)])

\* Mutation: the fee is paid but the basis is left as it was.
distribute_yield_keeps_basis(accepted) ==
    IF config = NoConfig THEN Failed("Panic")
    ELSE
      LET total_assets == get_total_vault_assets
          yield_earned == total_assets - initial_deposits
          platform_fee == TruncDiv(yield_earned * PLATFORM_FEE_BPS, BPS_DENOMINATOR)
      IN IF yield_earned <= 0 THEN Failed("NoYieldToDistribute")
         ELSE IF platform_fee <= 0 THEN Failed("NoYieldToDistribute")
         ELSE IF ~CanTransfer(bal, config.asset, Vault, platform_fee, accepted)
              THEN Failed("TransferError")
         ELSE Succeeded(platform_fee, [Store EXCEPT
                !.bal = Transfer(bal, config.asset, Vault, config.platform, platform_fee)])

\* Mutation: no check of the fee, a dust yield is absorbed with a fee of 0.
distribute_yield_accepts_dust(accepted) ==
    IF config = NoConfig THEN Failed("Panic")
    ELSE
      LET total_assets == get_total_vault_assets
          yield_earned == total_assets - initial_deposits
          platform_fee == TruncDiv(yield_earned * PLATFORM_FEE_BPS, BPS_DENOMINATOR)
      IN IF yield_earned <= 0 THEN Failed("NoYieldToDistribute")
         ELSE IF ~CanTransfer(bal, config.asset, Vault, platform_fee, accepted)
              THEN Failed("TransferError")
         ELSE Succeeded(platform_fee, [Store EXCEPT
                !.dep = initial_deposits + (yield_earned - platform_fee),
                !.bal = Transfer(bal, config.asset, Vault, config.platform, platform_fee)])

\* Mutation: the fee is also booked as shares minted to the platform.
distribute_yield_mints_fee_shares(accepted) ==
    IF config = NoConfig THEN Failed("Panic")
    ELSE
      LET total_assets == get_total_vault_assets
          yield_earned == total_assets - initial_deposits
          platform_fee == TruncDiv(yield_earned * PLATFORM_FEE_BPS, BPS_DENOMINATOR)
      IN IF yield_earned <= 0 THEN Failed("NoYieldToDistribute")
         ELSE IF platform_fee <= 0 THEN Failed("NoYieldToDistribute")
         ELSE IF ~CanTransfer(bal, config.asset, Vault, platform_fee, accepted)
              THEN Failed("TransferError")
         ELSE Succeeded(platform_fee, [Store EXCEPT
                !.ts = total_shares + platform_fee,
                !.dep = initial_deposits + (yield_earned - platform_fee),
                !.bal = Transfer(bal, config.asset, Vault, config.platform, platform_fee)])

\* -------------------------------------------------------- distribute_yield
distribute_yield(accepted) ==
    IF config = NoConfig THEN Failed("Panic")
    ELSE
      LET total_assets == get_total_vault_assets
          yield_earned == total_assets - initial_deposits
          platform_fee == TruncDiv(yield_earned * PLATFORM_FEE_BPS, BPS_DENOMINATOR)
      IN IF yield_earned <= 0 THEN Failed("NoYieldToDistribute")
         ELSE IF platform_fee <= 0 THEN Failed("NoYieldToDistribute")
         ELSE IF ~CanTransfer(bal, config.asset, Vault, platform_fee, accepted)
              THEN Failed("TransferError")
         ELSE Succeeded(platform_fee, [Store EXCEPT
                !.dep = initial_deposits + (yield_earned - platform_fee),
                !.bal = Transfer(bal, config.asset, Vault, config.platform, platform_fee)])

get_share_value == calculate_share_value

\* The getters unwrap the stored value and trap when it is missing.
get_agent == IF config = NoConfig THEN "trap" ELSE config.agent

get_platform == IF config = NoConfig THEN "trap" ELSE config.platform

get_admin == IF config = NoConfig THEN "trap" ELSE config.admin

\* ------------------------------------------------------------------ farming
\* The TuxFarming contract.  farm.st holds its instance storage (OWNER,
\* TUX_TKN, one entry per pool id), its persistent (user, pool_id) stakes and
\* the balances the token contracts keep; farm.last is its last invocation
\* and farm.nops counts the invocations that succeeded.
FarmFunds == 2
MaxFarmOps == 4
RewardFunds == 1

FarmContract == "farming"
FarmTokens == {"tux", "lp"}
PoolIds == {"p1"}
FarmHolders == Users \cup {FarmContract}
FarmAmounts == {0, 1, 2}
FarmAdmins == {"admin", "u2"}

FarmInit ==
    [st |-> [owner |-> "none", tux_token |-> "none",
             pools |-> [p \in {} |-> "none"],
             stakes |-> [k \in {} |-> 0],
             bal |-> [t \in FarmTokens |-> [h \in FarmHolders |->
                        IF h \in Users THEN FarmFunds
                        ELSE IF t = "tux" THEN RewardFunds ELSE 0]]],
     last |-> [op |-> "none", user |-> "none", amount |-> 0, err |-> "Ok"],
     nops |-> 0]

FarmFailed(e) == [err |-> e, st |-> farm.st]
FarmSucceeded(s) == [err |-> "Ok", st |-> s]

\* storage().persistent().get(&(user, pool_id)).unwrap_or(0)
UserStake(stakes, user, pool_id) ==
    IF <<user, pool_id>> \in DOMAIN stakes THEN stakes[<<user, pool_id>>] ELSE 0

SetStake(stakes, user, pool_id, v) ==
    [k \in (DOMAIN stakes) \cup {<<user, pool_id>>} |->
        IF k = <<user, pool_id>> THEN v ELSE stakes[k]]

RemoveStake(stakes, user, pool_id) ==
    [k \in (DOMAIN stakes) \ {<<user, pool_id>>} |-> stakes[k]]

\* token_client.transfer(from, to, amount) on the farming tokens
FarmTransfer(b, token, from, to, amount) ==
    [b EXCEPT ![token] = [h \in FarmHolders |->
        b[token][h] - (IF h = from THEN amount ELSE 0) + (IF h = to THEN amount ELSE 0)]]

farm_initialize(admin, tux_token) ==
    IF farm.st.owner # "none" THEN FarmFailed("AlreadyInitialized")
    ELSE FarmSucceeded([farm.st EXCEPT !.owner = admin, !.tux_token = tux_token])

add_pool(admin, pool_id, staking_token, auth) ==
    IF farm.st.owner = "none" THEN FarmFailed("Panic")
    ELSE IF admin # farm.st.owner THEN FarmFailed("NotAuthorized")
    ELSE IF ~auth THEN FarmFailed("AuthError")
    ELSE FarmSucceeded([farm.st EXCEPT
            !.pools = [p \in (DOMAIN farm.st.pools) \cup {pool_id} |->
                          IF p = pool_id THEN staking_token ELSE farm.st.pools[p]]])

\* stake and unstake build a placeholder address with Address::from_str from a
\* 53-character string on every call.  Whether the host accepts that string
\* is not decided by the sources: `dummy` says that it does, and the call
\* traps when it does not.  The placeholder equals no token address.
stake(user, pool_id, amount, auth, dummy) ==
    IF ~auth THEN FarmFailed("AuthError")
    ELSE IF amount <= 0 THEN FarmFailed("InvalidAmount")
    ELSE IF ~dummy THEN FarmFailed("Panic")
    ELSE IF pool_id \notin DOMAIN farm.st.pools THEN FarmFailed("PoolNotFound")
    ELSE
      LET staking_token == farm.st.pools[pool_id]
          current_stake == UserStake(farm.st.stakes, user, pool_id)
      IN IF farm.st.bal[staking_token][user] < amount THEN FarmFailed("TransferError")
         ELSE FarmSucceeded([farm.st EXCEPT
                !.bal = FarmTransfer(farm.st.bal, staking_token, user, FarmContract, amount),
                !.stakes = SetStake(farm.st.stakes, user, pool_id, current_stake + amount)])

unstake(user, pool_id, amount, auth, dummy) ==
    IF ~auth THEN FarmFailed("AuthError")
    ELSE IF amount <= 0 THEN FarmFailed("InvalidAmount")
    ELSE
      LET current_stake == UserStake(farm.st.stakes, user, pool_id)
      IN IF current_stake < amount THEN FarmFailed("InsufficientBalance")
         ELSE IF ~dummy THEN FarmFailed("Panic")
         ELSE IF pool_id \notin DOMAIN farm.st.pools THEN FarmFailed("PoolNotFound")
         ELSE
           LET staking_token == farm.st.pools[pool_id]
               new_stake == current_stake - amount
           IN IF farm.st.bal[staking_token][FarmContract] < amount
              THEN FarmFailed("TransferError")
              ELSE FarmSucceeded([farm.st EXCEPT
                     !.stakes = IF new_stake = 0
                                THEN RemoveStake(farm.st.stakes, user, pool_id)
                                ELSE SetStake(farm.st.stakes, user, pool_id, new_stake),
                     !.bal = FarmTransfer(farm.st.bal, staking_token, FarmContract, user, amount)])

mint_rewards(admin, to, amount, auth) ==
    IF farm.st.owner = "none" THEN FarmFailed("Panic")
    ELSE IF admin # farm.st.owner THEN FarmFailed("NotAuthorized")
    ELSE IF ~auth THEN FarmFailed("AuthError")
    ELSE IF amount <= 0 THEN FarmFailed("InvalidAmount")
    ELSE IF farm.st.bal[farm.st.tux_token][FarmContract] < amount
         THEN FarmFailed("TransferError")
    ELSE FarmSucceeded([farm.st EXCEPT
            !.bal = FarmTransfer(farm.st.bal, farm.st.tux_token, FarmContract, to, amount)])

\* ----------------------------------------------------------------- actions
\* The host keeps the writes of an invocation that returned Ok.
Commit(o) ==
    /\ total_shares' = o.st.ts
    /\ initial_deposits' = o.st.dep
    /\ shares' = o.st.led
    /\ bal' = o.st.bal
    /\ nops' = IF o.err = "Ok" THEN nops + 1 ELSE nops
    /\ o.err = "Ok" => nops < MaxOps
    \* A failed invocation leaves the state as it was, so the invocations that
    \* can follow it are those that could follow the one before it: failing
    \* invocations are explored from the states successful ones leave.
    /\ o.err # "Ok" => last.err = "Ok"
    /\ UNCHANGED farm

Call(op, user, amount, tag, asset, auth, accepted, o) ==
    [op |-> op, user |-> user, amount |-> amount, tag |-> tag, asset |-> asset,
     auth |-> auth, accepted |-> accepted, err |-> o.err, ret |-> o.ret,
     pre |-> Store, cfg |-> config]

\* initialize without the has(ADMIN) check: a second call overwrites the
\* configuration and resets the aggregates.
Initialize_overwrites(a) ==
    /\ config # NoConfig => last.err = "Ok"
    /\ config' = a
    /\ total_shares' = 0
    /\ initial_deposits' = 0
    /\ last' = Call("initialize", a.admin, 0, "", a.asset, TRUE, TRUE,
                    Succeeded(0, Store))
    /\ UNCHANGED <<shares, bal, nops, farm>>

\* initialize storing the agent under ADMIN and the admin under AGENT.
Initialize_swaps_roles(a) ==
    IF config # NoConfig
    THEN /\ last.err = "Ok"
         /\ last' = Call("initialize", a.admin, 0, "", a.asset, TRUE, TRUE,
                         Failed("AlreadyInitialized"))
         /\ UNCHANGED <<config, total_shares, initial_deposits, shares, bal, nops, farm>>
    ELSE /\ config' = [a EXCEPT !.admin = a.agent, !.agent = a.admin]
         /\ total_shares' = 0
         /\ initial_deposits' = 0
         /\ last' = Call("initialize", a.admin, 0, "", a.asset, TRUE, TRUE,
                         Succeeded(0, Store))
         /\ UNCHANGED <<shares, bal, nops, farm>>

Initialize(a) ==
    IF config # NoConfig
    THEN /\ last.err = "Ok"
         /\ last' = Call("initialize", a.admin, 0, "", a.asset, TRUE, TRUE,
                         Failed("AlreadyInitialized"))
         /\ UNCHANGED <<config, total_shares, initial_deposits, shares, bal, nops, farm>>
    ELSE /\ config' = a
         /\ total_shares' = 0
         /\ initial_deposits' = 0
         /\ last' = Call("initialize", a.admin, 0, "", a.asset, TRUE, TRUE,
                         Succeeded(0, Store))
         /\ UNCHANGED <<shares, bal, nops, farm>>

Deposit(user, amount, auth, accepted) ==
    LET o == deposit(user, amount, auth, accepted)
    IN /\ o.st.ts <= MaxShares
       /\ Commit(o)
       /\ last' = Call("deposit", user, amount, "", config.asset, auth, accepted, o)
       /\ UNCHANGED config

Withdraw(user, amount, auth, accepted) ==
    LET o == withdraw(user, amount, auth, accepted)
    IN /\ Commit(o)
       /\ last' = Call("withdraw", user, amount, "", config.asset, auth, accepted, o)
       /\ UNCHANGED config

AgentExecute(strategy, auth, accepted) ==
    LET o == agent_execute(strategy, auth, accepted)
    IN /\ Commit(o)
       /\ last' = Call("agent_execute", strategy.pool, strategy.amount, strategy.action,
                       strategy.asset, auth, accepted, o)
       /\ UNCHANGED config

DistributeYield(accepted) ==
    LET o == distribute_yield(accepted)
    IN /\ Commit(o)
       /\ last' = Call("distribute_yield", "anyone", 0, "", config.asset, TRUE, accepted, o)
       /\ UNCHANGED config

\* The venue pays `amount` of the vault's asset into the vault: a transfer made
\* at the token contract, outside the vault's entry points.
ExternalInflow(amount) ==
    /\ config # NoConfig
    /\ CanTransfer(bal, config.asset, Venue, amount, TRUE)
    /\ LET o == Succeeded(0, [Store EXCEPT
                  !.bal = Transfer(bal, config.asset, Venue, Vault, amount)])
       IN /\ Commit(o)
          /\ last' = Call("external", Venue, amount, "", config.asset, TRUE, TRUE, o)
    /\ UNCHANGED config

Init ==
    /\ config = NoConfig
    /\ total_shares = 0
    /\ initial_deposits = 0
    /\ shares = [u \in {} |-> 0]
    /\ bal = [a \in Assets |-> [h \in Holders |->
                IF a = "usdc" THEN (IF h \in Users THEN UserFunds
                                    ELSE IF h = Venue THEN VenueFunds ELSE 0)
                ELSE (IF h = Vault THEN OtherFunds ELSE 0)]]
    /\ nops = 0
    /\ farm = FarmInit
    /\ last = [op |-> "none", user |-> "none", amount |-> 0, tag |-> "", asset |-> "none",
               auth |-> TRUE, accepted |-> TRUE, err |-> "Ok", ret |-> 0,
               pre |-> Store, cfg |-> NoConfig]

WithdrawAmounts(user) == {0, 1, UserShares(shares, user), UserShares(shares, user) + 1}

\* Strategy values the agent entry point is called with: both movements of the
\* vault's asset for each amount, both movements of another asset, and an
\* action tag that is neither.
Strategies ==
    [action : {"supply", "withdraw"}, pool : {Venue}, asset : {"usdc"}, amount : StrategyAmounts]
    \cup [action : {"supply", "withdraw"}, pool : {Venue}, asset : {"other"}, amount : {OtherFunds}]
    \cup [action : {"rebalance"}, pool : {Venue}, asset : {"usdc"}, amount : StrategyAmounts]

\* <<the required principal authorized the call, the token contract accepts
\* the movement>>; without the authorization no movement is attempted.
Ports == {<<TRUE, TRUE>>, <<TRUE, FALSE>>, <<FALSE, TRUE>>}

Next ==
    \/ \E a \in InitArgs : Initialize(a)
    \/ \E u \in Users, m \in DepositAmounts, p \in Ports : Deposit(u, m, p[1], p[2])
    \/ \E u \in Users, p \in Ports : \E m \in WithdrawAmounts(u) : Withdraw(u, m, p[1], p[2])
    \/ \E s \in Strategies, p \in Ports : AgentExecute(s, p[1], p[2])
    \/ \E acc \in BOOLEAN : DistributeYield(acc)
    \/ \E m \in InflowAmounts : ExternalInflow(m)

Spec == Init /\ [][Next]_vars

\* ------------------------------------------- executions without venue income
\* The entry points again, in executions where the venue pays nothing of its
\* own: there is no external inflow and the agent recalls at most what it has
\* supplied.  Calls are authorized and the token contract accepts them.
MatchedAmount == 50
MaxMatchedOps == 5

MatchedStrategies ==
    [action : {"supply", "withdraw"}, pool : {Venue}, asset : {"usdc"}, amount : {MatchedAmount}]

MatchedCommit(o) ==
    /\ total_shares' = o.st.ts
    /\ initial_deposits' = o.st.dep
    /\ shares' = o.st.led
    /\ bal' = o.st.bal
    /\ nops' = IF o.err = "Ok" THEN nops + 1 ELSE nops
    /\ o.err = "Ok" => nops < MaxMatchedOps
    /\ o.err # "Ok" => last.err = "Ok"
    /\ UNCHANGED farm

MatchedDeposit(user, amount) ==
    LET o == deposit(user, amount, TRUE, TRUE)
    IN /\ o.st.ts <= MaxShares
       /\ MatchedCommit(o)
       /\ last' = Call("deposit", user, amount, "", config.asset, TRUE, TRUE, o)
       /\ UNCHANGED config

MatchedWithdraw(user, amount) ==
    LET o == withdraw(user, amount, TRUE, TRUE)
    IN /\ MatchedCommit(o)
       /\ last' = Call("withdraw", user, amount, "", config.asset, TRUE, TRUE, o)
       /\ UNCHANGED config

MatchedAgentExecute(strategy) ==
    LET o == agent_execute(strategy, TRUE, TRUE)
    IN /\ strategy.action = "withdraw" =>
              bal[strategy.asset][Venue] - strategy.amount >= VenueFunds
       /\ MatchedCommit(o)
       /\ last' = Call("agent_execute", strategy.pool, strategy.amount, strategy.action,
                       strategy.asset, TRUE, TRUE, o)
       /\ UNCHANGED config

MatchedDistributeYield ==
    LET o == distribute_yield(TRUE)
    IN /\ MatchedCommit(o)
       /\ last' = Call("distribute_yield", "anyone", 0, "", config.asset, TRUE, TRUE, o)
       /\ UNCHANGED config

NextMatched ==
    \/ \E a \in InitArgs : Initialize(a)
    \/ \E u \in Users, m \in DepositAmounts : MatchedDeposit(u, m)
    \/ \E u \in Users : \E m \in WithdrawAmounts(u) : MatchedWithdraw(u, m)
    \/ \E s \in MatchedStrategies : MatchedAgentExecute(s)
    \/ MatchedDistributeYield

SpecMatched == Init /\ [][NextMatched]_vars

\* ------------------------------------------------------- fixed-width products
\* The contract's amounts are i128 and its products are written with the plain
\* `*` operator.  Whether a product that leaves the range traps or wraps is
\* decided by the build profile (overflow-checks), which the sources do not
\* fix, so each call below takes either outcome.  The 128-bit word is narrowed
\* to WordBits so that amounts within the 32-bit integers of TLC leave the
\* range of a word when multiplied by INITIAL_SHARE_VALUE.
WordBits == 30

WordMod == 2^WordBits
MaxWord == (WordMod \div 2) - 1
MinWord == -(WordMod \div 2)

Abs(x) == IF x < 0 THEN -x ELSE x

\* The exact product a * b lies outside MinWord..MaxWord.
Overflows(a, b) ==
    /\ a # 0 /\ b # 0
    /\ IF (a < 0) = (b < 0)
       THEN Abs(a) > MaxWord \div Abs(b)
       ELSE Abs(a) > (MaxWord + 1) \div Abs(b)

\* a * b modulo WordMod for 0 <= a, b < WordMod, by doubling.
RECURSIVE MulMod(_, _)
MulMod(a, b) ==
    IF b = 0 THEN 0
    ELSE LET d == (2 * MulMod(a, b \div 2)) % WordMod
         IN IF b % 2 = 1 THEN (d + a) % WordMod ELSE d

\* i128::wrapping_mul, two's complement.
wrapping_mul(a, b) ==
    LET r == MulMod(a % WordMod, b % WordMod)
    IN IF r > MaxWord THEN r - WordMod ELSE r

Product(a, b) == IF Overflows(a, b) THEN wrapping_mul(a, b) ELSE a * b

calculate_share_value_i128 ==
    IF total_shares = 0 THEN INITIAL_SHARE_VALUE
    ELSE TruncDiv(Product(get_total_vault_assets, INITIAL_SHARE_VALUE), total_shares)

\* The product in calculate_share_value is evaluated and leaves the range.
ShareValueOverflows ==
    total_shares # 0 /\ Overflows(get_total_vault_assets, INITIAL_SHARE_VALUE)

get_share_value_i128(overflow_checks) ==
    IF config = NoConfig THEN Failed("Panic")
    ELSE IF overflow_checks /\ ShareValueOverflows THEN Failed("Panic")
    ELSE Succeeded(calculate_share_value_i128, Store)

deposit_i128(user, amount, auth, accepted, overflow_checks) ==
    IF ~auth THEN Failed("AuthError")
    ELSE IF amount <= 0 THEN Failed("InvalidAmount")
    ELSE IF config = NoConfig THEN Failed("Panic")
    ELSE IF overflow_checks /\ ShareValueOverflows THEN Failed("Panic")
    ELSE
      LET share_value == calculate_share_value_i128
      IN IF overflow_checks /\ share_value # 0 /\ Overflows(amount, INITIAL_SHARE_VALUE)
         THEN Failed("Panic")
         ELSE
           LET shares_to_mint ==
                   IF share_value = 0 THEN amount
                   ELSE TruncDiv(Product(amount, INITIAL_SHARE_VALUE), share_value)
           IN IF shares_to_mint <= 0 THEN Failed("InvalidAmount")
              ELSE IF ~CanTransfer(bal, config.asset, user, amount, accepted)
                   THEN Failed("TransferError")
              ELSE Succeeded(shares_to_mint,
                     [ts  |-> total_shares + shares_to_mint,
                      dep |-> initial_deposits + amount,
                      led |-> SetShares(shares, user, UserShares(shares, user) + shares_to_mint),
                      bal |-> Transfer(bal, config.asset, user, Vault, amount)])

withdraw_i128(user, amount, auth, accepted, overflow_checks) ==
    IF ~auth THEN Failed("AuthError")
    ELSE IF amount <= 0 THEN Failed("InvalidAmount")
    ELSE
      LET user_shares == UserShares(shares, user)
      IN IF user_shares < amount THEN Failed("InsufficientShares")
         ELSE IF config = NoConfig THEN Failed("Panic")
         ELSE IF overflow_checks /\ ShareValueOverflows THEN Failed("Panic")
         ELSE
           LET share_value == calculate_share_value_i128
           IN IF overflow_checks /\ Overflows(amount, share_value) THEN Failed("Panic")
              ELSE
                LET assets_to_return ==
                        TruncDiv(Product(amount, share_value), INITIAL_SHARE_VALUE)
                    total_assets == get_total_vault_assets
                    new_user_shares == user_shares - amount
                    deposit_reduction ==
                        IF total_shares > 0
                        THEN TruncDiv(Product(initial_deposits, amount), total_shares)
                        ELSE initial_deposits
                IN IF assets_to_return <= 0 THEN Failed("InvalidAmount")
                   ELSE IF total_assets < assets_to_return THEN Failed("InsufficientBalance")
                   ELSE IF /\ overflow_checks /\ total_shares > 0
                           /\ Overflows(initial_deposits, amount)
                        THEN Failed("Panic")
                   ELSE IF ~CanTransfer(bal, config.asset, Vault, assets_to_return, accepted)
                        THEN Failed("TransferError")
                   ELSE Succeeded(assets_to_return,
                          [ts  |-> total_shares - amount,
                           dep |-> initial_deposits - deposit_reduction,
                           led |-> IF new_user_shares = 0 THEN RemoveShares(shares, user)
                                   ELSE SetShares(shares, user, new_user_shares),
                           bal |-> Transfer(bal, config.asset, Vault, user, assets_to_return)])

distribute_yield_i128(accepted, overflow_checks) ==
    IF config = NoConfig THEN Failed("Panic")
    ELSE
      LET total_assets == get_total_vault_assets
          yield_earned == total_assets - initial_deposits
      IN IF yield_earned <= 0 THEN Failed("NoYieldToDistribute")
         ELSE IF overflow_checks /\ Overflows(yield_earned, PLATFORM_FEE_BPS)
              THEN Failed("Panic")
         ELSE
           LET platform_fee ==
                   TruncDiv(Product(yield_earned, PLATFORM_FEE_BPS), BPS_DENOMINATOR)
           IN IF platform_fee <= 0 THEN Failed("NoYieldToDistribute")
              ELSE IF ~CanTransfer(bal, config.asset, Vault, platform_fee, accepted)
                   THEN Failed("TransferError")
              ELSE Succeeded(platform_fee, [Store EXCEPT
                     !.dep = initial_deposits + (yield_earned - platform_fee),
                     !.bal = Transfer(bal, config.asset, Vault, config.platform, platform_fee)])

\* The build an invocation runs in is recorded in the call's tag.
Build(overflow_checks) == IF overflow_checks THEN "overflow-checks" ELSE "wrapping"

DepositI128(user, amount, overflow_checks) ==
    LET o == deposit_i128(user, amount, TRUE, TRUE, overflow_checks)
    IN /\ o.st.ts <= MaxShares
       /\ Commit(o)
       /\ last' = Call("deposit", user, amount, Build(overflow_checks), config.asset,
                       TRUE, TRUE, o)
       /\ UNCHANGED config

WithdrawI128(user, amount, overflow_checks) ==
    LET o == withdraw_i128(user, amount, TRUE, TRUE, overflow_checks)
    IN /\ Commit(o)
       /\ last' = Call("withdraw", user, amount, Build(overflow_checks), config.asset,
                       TRUE, TRUE, o)
       /\ UNCHANGED config

DistributeYieldI128(overflow_checks) ==
    LET o == distribute_yield_i128(TRUE, overflow_checks)
    IN /\ Commit(o)
       /\ last' = Call("distribute_yield", "anyone", 0, Build(overflow_checks), config.asset,
                       TRUE, TRUE, o)
       /\ UNCHANGED config

NextI128 ==
    \/ \E a \in InitArgs : Initialize(a)
    \/ \E u \in Users, m \in DepositAmounts, c \in BOOLEAN : DepositI128(u, m, c)
    \/ \E u \in Users, c \in BOOLEAN : \E m \in WithdrawAmounts(u) : WithdrawI128(u, m, c)
    \/ \E c \in BOOLEAN : DistributeYieldI128(c)
    \/ \E m \in InflowAmounts : ExternalInflow(m)

SpecI128 == Init /\ [][NextI128]_vars

\* ------------------------------------------------ executions without the agent
\* The vault used through initialize, deposit, withdraw and distribute_yield,
\* with payments into the vault from outside and no agent_execute.
NextUndeployed ==
    \/ \E a \in InitArgs : Initialize(a)
    \/ \E u \in Users, m \in DepositAmounts, p \in Ports : Deposit(u, m, p[1], p[2])
    \/ \E u \in Users, p \in Ports : \E m \in WithdrawAmounts(u) : Withdraw(u, m, p[1], p[2])
    \/ \E acc \in BOOLEAN : DistributeYield(acc)
    \/ \E m \in InflowAmounts : ExternalInflow(m)

SpecUndeployed == Init /\ [][NextUndeployed]_vars

\* ---------------------------------------------------------- farming actions
\* An invocation of TuxFarming: the vault is left alone.  A failing call is
\* taken only after a successful one.
FarmCommit(op, user, amount, o) ==
    /\ o.err # "Ok" => farm.last.err = "Ok"
    /\ o.err = "Ok" => farm.nops < MaxFarmOps
    /\ farm' = [st |-> o.st,
                last |-> [op |-> op, user |-> user, amount |-> amount, err |-> o.err],
                nops |-> IF o.err = "Ok" THEN farm.nops + 1 ELSE farm.nops]
    /\ UNCHANGED <<config, total_shares, initial_deposits, shares, bal, last, nops>>

FarmInitialize(admin, tux_token) ==
    LET o == farm_initialize(admin, tux_token)
    IN /\ admin \in FarmAdmins
       /\ FarmCommit("initialize", admin, 0, o)

AddPool(admin, pool_id, staking_token, auth) ==
    LET o == add_pool(admin, pool_id, staking_token, auth)
    IN /\ pool_id \in PoolIds
       /\ FarmCommit("add_pool", admin, 0, o)

Stake(user, pool_id, amount, auth, dummy) ==
    LET o == stake(user, pool_id, amount, auth, dummy)
    IN /\ pool_id \in PoolIds
       /\ FarmCommit("stake", user, amount, o)

Unstake(user, pool_id, amount, auth, dummy) ==
    LET o == unstake(user, pool_id, amount, auth, dummy)
    IN /\ pool_id \in PoolIds
       /\ FarmCommit("unstake", user, amount, o)

MintRewards(admin, to, amount, auth) ==
    LET o == mint_rewards(admin, to, amount, auth)
    IN /\ to \in Users
       /\ FarmCommit("mint_rewards", admin, amount, o)

\* Every call is made with the caller's authorization or without it, and with
\* the host accepting the placeholder address or not; one of the three
\* combinations stands for the rejected ones.
FarmPorts == {<<TRUE, TRUE>>, <<TRUE, FALSE>>, <<FALSE, TRUE>>}

NextFarming ==
    \/ \E t \in FarmTokens : FarmInitialize("admin", t)
    \/ \E a \in FarmAdmins, p \in PoolIds, t \in FarmTokens, auth \in BOOLEAN :
          AddPool(a, p, t, auth)
    \/ \E u \in Users, p \in PoolIds, m \in FarmAmounts, q \in FarmPorts :
          Stake(u, p, m, q[1], q[2])
    \/ \E u \in Users, p \in PoolIds, m \in FarmAmounts, q \in FarmPorts :
          Unstake(u, p, m, q[1], q[2])
    \/ \E a \in FarmAdmins, u \in Users, m \in FarmAmounts, auth \in BOOLEAN :
          MintRewards(a, u, m, auth)

SpecFarming == Init /\ [][NextFarming]_vars

\* ------------------------------------------------------------------ claims
RECURSIVE SumShares(_)
SumShares(led) ==
    IF DOMAIN led = {} THEN 0
    ELSE LET u == CHOOSE x \in DOMAIN led : TRUE
         IN led[u] + SumShares(RemoveShares(led, u))

VaultOps == {"deposit", "withdraw", "agent_execute", "distribute_yield"}
LiveAssets(b, cfg) == b[cfg.asset][Vault]

\* C1: in every reachable state, after successful and failed calls alike,
\* total_shares equals the sum of the share balances of the ledger.
C1_ShareConservation == total_shares = SumShares(shares)

\* C1 witness: a withdraw succeeded and left two holders whose balances differ.
C1_Witness ==
    /\ last.op = "withdraw" /\ last.err = "Ok"
    /\ DOMAIN shares = Users
    /\ shares["u1"] # shares["u2"]

\* C2: whenever the vault is initialized, get_share_value() * total_shares / SCALE
\* (integer division) is at most the vault's live asset balance.
C2_Solvency ==
    config # NoConfig =>
        TruncDiv(get_share_value * total_shares, INITIAL_SHARE_VALUE) <= get_total_vault_assets

\* C2 witness: shares are outstanding at a share value away from par, and part of
\* the pooled assets is deployed in the venue.
C2_Witness ==
    /\ config # NoConfig
    /\ total_shares > 0
    /\ get_share_value # INITIAL_SHARE_VALUE
    /\ get_total_vault_assets < initial_deposits

\* The token contract rejects the movement the call asks for: it refuses it, or
\* the paying side does not hold the amount.
PortRejects(c) ==
    \/ ~c.accepted
    \/ /\ c.cfg # NoConfig
       /\ \/ c.op = "deposit" /\ c.amount > c.pre.bal[c.asset][c.user]
          \/ c.op = "agent_execute" /\ c.tag = "supply" /\ c.amount > c.pre.bal[c.asset][Vault]
          \/ c.op = "agent_execute" /\ c.tag = "withdraw" /\ c.amount > c.pre.bal[c.asset][c.user]

\* C3: a deposit, withdraw, distribute_yield or agent_execute whose asset movement
\* the token contract rejects fails, and total_shares, the deposit basis, the
\* ledger and every balance are what they were before the call.
C3_TransferFailureAtomic ==
    (last.op \in VaultOps /\ PortRejects(last)) => (last.err # "Ok" /\ Store = last.pre)

\* C3 witness: a pull of more than the user holds was rejected in deposit, in a
\* vault that already has shares and a basis.
C3_Witness ==
    /\ last.op = "deposit" /\ last.err = "TransferError"
    /\ last.accepted
    /\ last.amount > bal[last.asset][last.user]
    /\ total_shares > 0 /\ initial_deposits > 0

\* C4: right after a successful deposit(user, A) that minted m shares,
\* withdraw(user, m) succeeds and returns r with A - 1 <= r <= A.
C4_RoundTrip ==
    (last.op = "deposit" /\ last.err = "Ok") =>
        LET w == withdraw(last.user, last.ret, TRUE, TRUE)
        IN w.err = "Ok" /\ last.amount - 1 <= w.ret /\ w.ret <= last.amount

\* C5 as claimed: a successful deposit made while no shares are outstanding
\* mints exactly amount shares and leaves get_share_value() at par.
C5_BootstrapAtPar ==
    (last.op = "deposit" /\ last.err = "Ok" /\ last.pre.ts = 0) =>
        (last.ret = last.amount /\ get_share_value = INITIAL_SHARE_VALUE)

\* C5 amended: a successful deposit made while no shares are outstanding mints
\* exactly amount shares, and get_share_value() right after it is
\* floor((L + amount) * SCALE / amount) for the live balance L the vault held
\* before the deposit: par when L = 0.
C5_Bootstrap ==
    (last.op = "deposit" /\ last.err = "Ok" /\ last.pre.ts = 0) =>
        LET L == LiveAssets(last.pre.bal, last.cfg)
        IN /\ last.ret = last.amount
           /\ total_shares = last.amount
           /\ get_share_value = TruncDiv((L + last.amount) * INITIAL_SHARE_VALUE, last.amount)
           /\ (L = 0 => get_share_value = INITIAL_SHARE_VALUE)

\* C5 witness: the first deposit into a vault that holds nothing.
C5_Witness ==
    /\ last.op = "deposit" /\ last.err = "Ok" /\ last.pre.ts = 0
    /\ LiveAssets(last.pre.bal, last.cfg) = 0
    /\ last.amount = 60 /\ total_shares = 60

\* C6: a successful distribute_yield pays floor((live - basis) * 200 / 10000) from
\* the vault to the platform principal and sets the basis to
\* old basis + yield - fee, which is the vault's live balance after the call.
C6_YieldSplit ==
    (last.op = "distribute_yield" /\ last.err = "Ok") =>
        LET live == LiveAssets(last.pre.bal, last.cfg)
            yield_earned == live - last.pre.dep
            platform_fee == (yield_earned * 200) \div 10000
        IN /\ last.ret = platform_fee
           /\ bal = Transfer(last.pre.bal, config.asset, Vault, config.platform, platform_fee)
           /\ get_total_vault_assets = live - platform_fee
           /\ initial_deposits = last.pre.dep + yield_earned - platform_fee
           /\ initial_deposits = get_total_vault_assets
           /\ total_shares = last.pre.ts /\ shares = last.pre.led

\* C6 witness: basis 60 and live balance 110 give yield 50, fee 1 and basis 109.
C6_Witness ==
    /\ last.op = "distribute_yield" /\ last.err = "Ok"
    /\ last.pre.dep = 60 /\ LiveAssets(last.pre.bal, last.cfg) = 110
    /\ last.ret = 1 /\ initial_deposits = 109
    /\ bal[config.asset][config.platform] = last.pre.bal[config.asset][config.platform] + 1

\* C7: in the state a successful distribute_yield leaves, distribute_yield fails
\* with NoYieldToDistribute and moves no fee.
C7_NoDoubleDistribution ==
    (last.op = "distribute_yield" /\ last.err = "Ok") =>
        \A acc \in BOOLEAN :
            /\ distribute_yield(acc).err = "NoYieldToDistribute"
            /\ distribute_yield(acc).st = Store

\* C7 witness: a distribute_yield was refused in a state where a fee has been
\* paid and the basis equals the live balance.
C7_Witness ==
    /\ last.op = "distribute_yield" /\ last.err = "NoYieldToDistribute"
    /\ config.platform = "platform" /\ bal[config.asset]["platform"] > 0
    /\ initial_deposits = get_total_vault_assets

\* C8: a successful withdraw(user, s) lowers the basis by floor(basis * s / T),
\* T being total_shares before the call; withdrawing every outstanding share
\* leaves the basis at 0.
C8_ProportionalBasis ==
    (last.op = "withdraw" /\ last.err = "Ok") =>
        /\ last.pre.ts > 0
        /\ initial_deposits = last.pre.dep - ((last.pre.dep * last.amount) \div last.pre.ts)
        /\ (last.amount = last.pre.ts => initial_deposits = 0)

\* C8 witness: par-value holders of 60 and 40 (basis 100); the holder of 60
\* withdrew them all and the basis is 40.
C8_Witness ==
    /\ last.op = "withdraw" /\ last.err = "Ok"
    /\ last.pre.dep = 100 /\ last.pre.ts = 100 /\ last.amount = 60
    /\ initial_deposits = 40
    /\ DOMAIN shares = {"u1", "u2"} \ {last.user}
    /\ total_shares = 40

\* C9: an authorized withdraw of shares > 0 above the user's ledger balance (a
\* user without an entry included) fails with InsufficientShares and changes
\* nothing.
C9_WithdrawExceedingShares ==
    (/\ last.op = "withdraw" /\ last.auth
     /\ last.amount > 0
     /\ last.amount > UserShares(last.pre.led, last.user)) =>
        (last.err = "InsufficientShares" /\ Store = last.pre)

\* C9 witness: a holder of 60 shares asked for 61 while another user held shares too.
C9_Witness ==
    /\ last.op = "withdraw" /\ last.err = "InsufficientShares"
    /\ UserShares(shares, last.user) = 60 /\ last.amount = 61
    /\ total_shares > 60

Moved(b, asset, from, to, amount, a, h) ==
    IF a # asset THEN b[a][h]
    ELSE b[a][h] - (IF h = from THEN amount ELSE 0) + (IF h = to THEN amount ELSE 0)

\* C11: a successful agent_execute leaves total_shares, the basis, the ledger and
\* the configuration as they were and moves exactly strategy.amount of
\* strategy.asset, vault to venue for supply and venue to vault for withdraw; an
\* authorized call with a positive amount and any other action tag fails with
\* NotAuthorized and moves nothing.
C11_AgentFrame ==
    /\ (last.op = "agent_execute" /\ last.err = "Ok") =>
          /\ last.tag \in {"supply", "withdraw"}
          /\ total_shares = last.pre.ts
          /\ initial_deposits = last.pre.dep
          /\ shares = last.pre.led
          /\ config = last.cfg
          /\ \A a \in Assets, h \in Holders :
                bal[a][h] = IF last.tag = "supply"
                            THEN Moved(last.pre.bal, last.asset, Vault, last.user, last.amount, a, h)
                            ELSE Moved(last.pre.bal, last.asset, last.user, Vault, last.amount, a, h)
    /\ (/\ last.op = "agent_execute" /\ last.cfg # NoConfig
        /\ last.auth /\ last.amount > 0
        /\ last.tag \notin {"supply", "withdraw"}) =>
          (last.err = "NotAuthorized" /\ Store = last.pre)

\* C11 witness: the agent recalled 40 from the venue while shares were outstanding.
C11_Witness ==
    /\ last.op = "agent_execute" /\ last.err = "Ok"
    /\ last.tag = "withdraw" /\ last.asset = "usdc" /\ last.amount = 40
    /\ total_shares > 0
    /\ bal["usdc"][Vault] = last.pre.bal["usdc"][Vault] + 40

\* C12: in executions where the venue returns exactly what was supplied and
\* nothing else changes the vault's balance, distribute_yield never succeeds,
\* whatever deposits and withdrawals are interleaved, and the platform
\* principal is paid no fee.
C12_StrategyIsNotIncome ==
    /\ last.op = "distribute_yield" => last.err # "Ok"
    /\ config # NoConfig => distribute_yield(TRUE).err # "Ok"

\* C13: initialize on a vault whose configuration already exists fails with
\* AlreadyInitialized, whatever the arguments and whenever it is called, and
\* leaves admin, agent, platform, asset, total_shares, the deposit basis, the
\* ledger and the balances as they were.
C13_InitializeOnce ==
    (last.op = "initialize" /\ last.cfg # NoConfig) =>
        /\ last.err = "AlreadyInitialized"
        /\ config = last.cfg
        /\ Store = last.pre

C13_Witness ==
    /\ last.op = "initialize" /\ last.err = "AlreadyInitialized"
    /\ last.user # config.admin
    /\ total_shares > 0 /\ initial_deposits > 0 /\ shares # << >>

\* C14: a successful initialize(admin, agent, platform, asset) makes get_admin,
\* get_agent and get_platform return the values passed, and no later call of
\* any entry point changes admin, agent, platform or asset.
C14_ImmutableConfig ==
    [][/\ \A a \in InitArgs :
             (config = NoConfig /\ Initialize(a)) =>
                 /\ get_admin' = a.admin
                 /\ get_agent' = a.agent
                 /\ get_platform' = a.platform
                 /\ config'.asset = a.asset
       /\ config # NoConfig => config' = config]_vars

C14_Witness ==
    /\ last.op = "distribute_yield" /\ last.err = "Ok"
    /\ get_admin = "agent" /\ get_agent = "admin" /\ get_platform = "u2"
    /\ config = last.cfg
    /\ bal[config.asset][get_platform] > last.pre.bal[config.asset][get_platform]

\* C15: while the vault is uninitialized every deposit, withdraw,
\* agent_execute and distribute_yield fails and changes neither the stored
\* state nor any balance; the vault leaves the uninitialized state only by a
\* successful initialize and never returns to it.
C15_LifecycleOrdering ==
    /\ [](/\ (last.cfg = NoConfig /\ last.op \in VaultOps) =>
                (last.err # "Ok" /\ Store = last.pre /\ config = NoConfig)
          /\ config = NoConfig =>
                /\ \A u \in Users, m \in DepositAmounts, p \in Ports :
                      deposit(u, m, p[1], p[2]).err # "Ok"
                /\ \A u \in Users, m \in {0, 1, 60}, p \in Ports :
                      withdraw(u, m, p[1], p[2]).err # "Ok"
                /\ \A s \in Strategies, p \in Ports :
                      agent_execute(s, p[1], p[2]).err # "Ok"
                /\ distribute_yield(TRUE).err # "Ok")
    /\ [][/\ (config = NoConfig /\ config' # NoConfig) =>
                (last'.op = "initialize" /\ last'.err = "Ok")
          /\ config # NoConfig => config' # NoConfig]_vars

C15_Witness ==
    /\ config = NoConfig /\ last.cfg = NoConfig
    /\ last.op = "deposit" /\ last.auth /\ last.accepted /\ last.amount = 60
    /\ last.err = "Panic"

\* C16: when pooled assets are deployed in the venue and not yet recalled, so
\* that the vault's live balance is below what the requested shares stand for
\* in deposited assets, an authorized withdraw of shares the holder owns fails
\* with InsufficientBalance and changes nothing.
C16_DeployedWithdrawRejected ==
    (/\ last.op = "withdraw" /\ last.cfg # NoConfig
     /\ last.auth /\ last.accepted
     /\ last.amount > 0 /\ last.amount <= UserShares(last.pre.led, last.user)
     /\ last.pre.bal[last.cfg.asset][Venue] > VenueFunds
     /\ TruncDiv(last.amount * last.pre.dep, last.pre.ts)
            > LiveAssets(last.pre.bal, last.cfg)) =>
        (last.err = "InsufficientBalance" /\ Store = last.pre)

\* What a successful deposit leaves besides total_shares: amount moved from
\* the user to the vault and no other balance touched, the basis up by
\* amount, the user's entry up by the shares minted, other entries untouched.
DepositMoved ==
    /\ \A a \in Assets, h \in Holders :
          bal[a][h] = Moved(last.pre.bal, last.cfg.asset, last.user, Vault, last.amount, a, h)
    /\ initial_deposits = last.pre.dep + last.amount
    /\ UserShares(shares, last.user) = UserShares(last.pre.led, last.user) + last.ret
    /\ \A u \in Users \ {last.user} : UserShares(shares, u) = UserShares(last.pre.led, u)

\* C17 as stated: a successful deposit(user, amount) pulls exactly amount from
\* user into the vault, increments total_shares by amount and the deposit
\* basis by amount, and increments the user's entry by shares_minted.
C17_DepositAddsAmountToTotal ==
    (last.op = "deposit" /\ last.err = "Ok") =>
        (DepositMoved /\ total_shares = last.pre.ts + last.amount)

\* C17, amended: a successful deposit(user, amount) pulls exactly amount from
\* user into the vault, increments the deposit basis by amount, and increments
\* both total_shares and the user's entry by shares_minted, in every reachable
\* pre-state, at par or not.
C17_DepositEffects ==
    (last.op = "deposit" /\ last.err = "Ok") =>
        (DepositMoved /\ total_shares = last.pre.ts + last.ret)

C17_Witness ==
    /\ last.op = "deposit" /\ last.err = "Ok"
    /\ last.ret # last.amount
    /\ last.pre.ts > 0
    /\ total_shares = last.pre.ts + last.ret

\* The share value in the state a recorded call started from.
ShareValueBefore ==
    IF last.pre.ts = 0 THEN INITIAL_SHARE_VALUE
    ELSE TruncDiv(LiveAssets(last.pre.bal, last.cfg) * INITIAL_SHARE_VALUE, last.pre.ts)

DustDeposit ==
    /\ last.op = "deposit" /\ last.auth /\ last.cfg # NoConfig
    /\ last.amount > 0 /\ ShareValueBefore > 0
    /\ TruncDiv(last.amount * INITIAL_SHARE_VALUE, ShareValueBefore) <= 0

\* C18: an authorized deposit fails with InvalidAmount when amount <= 0 and
\* when floor(amount * SCALE / share_value) <= 0; in both cases no asset is
\* pulled and no share, aggregate or ledger entry changes.  Every successful
\* deposit mints at least one share.
C18_DepositValidation ==
    /\ (last.op = "deposit" /\ last.auth /\ last.amount <= 0) =>
          (last.err = "InvalidAmount" /\ Store = last.pre)
    /\ DustDeposit => (last.err = "InvalidAmount" /\ Store = last.pre)
    /\ (last.op = "deposit" /\ last.err = "Ok") =>
          /\ last.ret >= 1
          /\ total_shares >= last.pre.ts + 1
          /\ UserShares(shares, last.user) >= UserShares(last.pre.led, last.user) + 1

C18_Witness ==
    /\ DustDeposit /\ last.accepted
    /\ last.err = "InvalidAmount"
    /\ last.pre.ts > 0
    /\ bal[last.cfg.asset][last.user] >= last.amount

\* The yield a recorded call found: live balance minus basis before the call.
YieldBefore == LiveAssets(last.pre.bal, last.cfg) - last.pre.dep

\* C19: on an initialized vault distribute_yield fails with
\* NoYieldToDistribute when live - basis <= 0 and when
\* floor(yield * 200 / 10000) <= 0, which is every yield below 50; the failing
\* call changes neither the basis nor any balance, so the same yield is still
\* measured afterwards, and a successful call absorbs the whole of
\* live - basis it finds.
C19_NoYieldRejected ==
    /\ (/\ last.op = "distribute_yield" /\ last.cfg # NoConfig
        /\ \/ YieldBefore <= 0
           \/ TruncDiv(YieldBefore * PLATFORM_FEE_BPS, BPS_DENOMINATOR) <= 0
           \/ YieldBefore < 50) =>
          /\ last.err = "NoYieldToDistribute"
          /\ Store = last.pre
          /\ get_total_vault_assets - initial_deposits = YieldBefore
          /\ distribute_yield(TRUE).err = "NoYieldToDistribute"
    /\ (last.op = "distribute_yield" /\ last.err = "Ok") =>
          /\ YieldBefore >= 50
          /\ initial_deposits + last.ret = last.pre.dep + YieldBefore
          /\ get_total_vault_assets = initial_deposits

C19_Witness ==
    /\ last.op = "distribute_yield" /\ last.err = "NoYieldToDistribute"
    /\ YieldBefore = 3 /\ total_shares > 0
    /\ get_total_vault_assets - initial_deposits = 3

\* C20: in every reachable state total_shares >= 0 and the deposit basis is
\* >= 0, every ledger entry that exists holds a strictly positive balance, and
\* a withdraw that brings the user's balance to zero removes the entry.
C20_WellFormed ==
    /\ total_shares >= 0
    /\ initial_deposits >= 0
    /\ \A u \in DOMAIN shares : shares[u] > 0
    /\ (/\ last.op = "withdraw" /\ last.err = "Ok"
        /\ UserShares(last.pre.led, last.user) = last.amount) =>
          last.user \notin DOMAIN shares

C20_Witness ==
    /\ last.op = "withdraw" /\ last.err = "Ok"
    /\ last.user \in DOMAIN last.pre.led
    /\ last.user \notin DOMAIN shares
    /\ DOMAIN shares # {}
    /\ total_shares > 0

\* C21: in every state of an initialized vault get_share_value() is
\* floor(live balance * SCALE / total_shares) when total_shares > 0 and SCALE
\* when total_shares = 0, taken from the vault's balance at that moment; it is
\* never negative, and right after initialize it is SCALE.
C21_ShareValueDefinition ==
    config # NoConfig =>
        /\ total_shares > 0 =>
              get_share_value = (bal[config.asset][Vault] * 10000000) \div total_shares
        /\ total_shares = 0 => get_share_value = 10000000
        /\ get_share_value >= 0
        /\ (last.op = "initialize" /\ last.err = "Ok") => get_share_value = 10000000

C21_Witness ==
    /\ config # NoConfig /\ last.op = "external"
    /\ total_shares = 60 /\ bal[config.asset][Vault] = 110
    /\ get_share_value = 18333333

\* C22: distribute_yield takes no caller and asks for no authorization, so its
\* outcome is a function of the stored state alone.  A successful call leaves
\* total_shares and every ledger entry unchanged, changes only the deposit
\* basis among the aggregates, and lowers the vault's live balance by exactly
\* the fee; a withdraw made afterwards is paid from the live balance it finds.
C22_DistributionShareNeutral ==
    (last.op = "distribute_yield" /\ last.err = "Ok") =>
        LET live == LiveAssets(last.pre.bal, last.cfg) - last.ret
        IN /\ total_shares = last.pre.ts
           /\ shares = last.pre.led
           /\ config = last.cfg
           /\ initial_deposits # last.pre.dep
           /\ \A a \in Assets, h \in Holders :
                 bal[a][h] = Moved(last.pre.bal, config.asset, Vault, config.platform,
                                   last.ret, a, h)
           /\ get_total_vault_assets = live
           /\ \A u \in DOMAIN shares : \A m \in 1..shares[u] :
                 LET o == withdraw(u, m, TRUE, TRUE)
                     pay == (m * ((live * 10000000) \div total_shares)) \div 10000000
                 IN IF pay <= 0 THEN o.err = "InvalidAmount"
                    ELSE o.err = "Ok" /\ o.ret = pay

C22_Witness ==
    /\ last.op = "distribute_yield" /\ last.err = "Ok"
    /\ total_shares = 60 /\ shares = last.pre.led
    /\ "u1" \in DOMAIN shares
    /\ withdraw("u1", 60, TRUE, TRUE).ret = 108

\* C23: in deposit, withdraw, get_share_value and distribute_yield a product
\* that does not fit the integer range makes the operation fail with an
\* arithmetic error instead of wrapping, and the failed operation leaves the
\* state unchanged.  Checked where the share value's product
\* total_assets * SCALE leaves the range.
C23_OverflowFails ==
    (config # NoConfig /\ ShareValueOverflows) =>
        \A c \in BOOLEAN :
            /\ get_share_value_i128(c).err = "Panic"
            /\ \A u \in Users :
                  /\ \A m \in {1, 40} : deposit_i128(u, m, TRUE, TRUE, c).err = "Panic"
                  /\ \A m \in 1..UserShares(shares, u) :
                        withdraw_i128(u, m, TRUE, TRUE, c).err = "Panic"
            /\ (last.op \in {"deposit", "withdraw"} /\ last.err = "Ok") =>
                  ~(last.pre.ts # 0 /\
                    Overflows(LiveAssets(last.pre.bal, last.cfg), INITIAL_SHARE_VALUE))

\* C24: deposit takes the 1:1 branch (share_value == 0) only when it is the
\* first deposit, that is when total_shares = 0; whenever shares are
\* outstanding the shares minted are floor(amount * SCALE / share_value).
C24_BootstrapOnlyFirstDeposit ==
    (last.op = "deposit" /\ last.err = "Ok") =>
        /\ ShareValueBefore = 0 => last.pre.ts = 0
        /\ last.pre.ts > 0 =>
              /\ ShareValueBefore > 0
              /\ last.ret = (last.amount * 10000000) \div ShareValueBefore

\* C25: whenever withdraw passes the InsufficientShares guard, total_shares
\* read before the decrement is > 0 and >= the shares requested, so the
\* branch that takes the whole basis because total_shares is 0 is never
\* taken, and the basis is always reduced by
\* floor(basis * shares / total_shares).
C25_ZeroTotalFallbackUnreachable ==
    /\ \A u \in Users : \A m \in 1..UserShares(shares, u) :
          total_shares > 0 /\ total_shares >= m
    /\ (last.op = "withdraw" /\ last.err = "Ok") =>
          /\ last.pre.ts > 0 /\ last.pre.ts >= last.amount
          /\ initial_deposits =
                last.pre.dep - (last.pre.dep * last.amount) \div last.pre.ts

C25_Witness ==
    /\ last.op = "withdraw" /\ last.err = "Ok"
    /\ last.pre.ts = last.amount
    /\ last.pre.dep > 0
    /\ total_shares = 0 /\ initial_deposits = 0

\* C26: in every reachable state, for every user and every number of shares
\* 0 < m <= the user's ledger balance, the payout floor(m * share_value / SCALE)
\* is <= floor(live * m / total_shares) and so <= the vault's live balance;
\* an authorized withdraw never fails on the balance check or on the transfer
\* for lack of vault funds.
C26_PayoutWithinLiveBalance ==
    config # NoConfig =>
        \A u \in DOMAIN shares : \A m \in 1..shares[u] :
            LET live == bal[config.asset][Vault]
                pay  == (m * get_share_value) \div 10000000
                o    == withdraw(u, m, TRUE, TRUE)
            IN /\ pay <= (live * m) \div total_shares
               /\ pay <= live
               /\ o.err \in {"Ok", "InvalidAmount"}
               /\ o.err = "Ok" => (o.ret = pay /\ o.st.bal[config.asset][Vault] = live - pay)

C26_Witness ==
    /\ last.op = "agent_execute" /\ last.tag = "supply" /\ last.err = "Ok"
    /\ total_shares = 60 /\ bal[config.asset][Vault] = 20 /\ initial_deposits = 60
    /\ withdraw("u1", 60, TRUE, TRUE).err = "Ok"
    /\ withdraw("u1", 60, TRUE, TRUE).ret = 19

\* C27: a successful deposit never leaves get_share_value() smaller than it
\* was immediately before the call, and neither does a successful withdraw
\* that leaves total_shares > 0.  A call that lowers it is a distribute_yield,
\* an agent supply, or the withdraw of the last shares (which returns the
\* value to par).
C27_ShareValueMonotone ==
    /\ (last.op = "deposit" /\ last.err = "Ok") => get_share_value >= ShareValueBefore
    /\ (last.op = "withdraw" /\ last.err = "Ok" /\ total_shares > 0) =>
          get_share_value >= ShareValueBefore
    /\ (last.cfg # NoConfig /\ get_share_value < ShareValueBefore) =>
          \/ last.op = "distribute_yield"
          \/ last.op = "agent_execute" /\ last.tag = "supply"
          \/ last.op = "withdraw" /\ total_shares = 0

C27_Witness ==
    /\ last.op = "deposit" /\ last.err = "Ok"
    /\ last.pre.ts > 0 /\ ShareValueBefore > INITIAL_SHARE_VALUE
    /\ last.ret < last.amount
    /\ get_share_value > ShareValueBefore

\* C28: in every state reached through initialize, deposit, withdraw,
\* distribute_yield and payments into the vault only, the vault's live balance
\* is >= the deposit basis, so the yield distribute_yield measures is never
\* negative.
C28_BasisWithinLiveAssets ==
    config # NoConfig =>
        /\ get_total_vault_assets >= initial_deposits
        /\ distribute_yield(TRUE).err = "NoYieldToDistribute" =>
              get_total_vault_assets - initial_deposits \in 0..49

C28_Witness ==
    /\ last.op = "withdraw" /\ last.err = "Ok"
    /\ total_shares > 0 /\ initial_deposits > 0
    /\ initial_deposits < last.pre.dep
    /\ get_total_vault_assets > initial_deposits

\* C29: in every reachable state with total_shares = 0 the deposit basis is 0,
\* also after the last holder has withdrawn and after a distribute_yield
\* called while no shares are outstanding.
C29_EmptyVaultNoBasis ==
    total_shares = 0 => initial_deposits = 0

\* The stakes recorded in a pool, summed over the users.
RECURSIVE SumStakes(_, _, _)
SumStakes(stakes, pool_id, users) ==
    IF users = {} THEN 0
    ELSE LET u == CHOOSE x \in users : TRUE
         IN UserStake(stakes, u, pool_id) + SumStakes(stakes, pool_id, users \ {u})

====
